---- MODULE Spec2Model ----
(***************************************************************************)
(* State-machine model of the research-and-synthesis workflow controller   *)
(* AgentStateMachine (src/agent/state_machine.py) and of the records it    *)
(* reads and writes (src/models/*.py).                                     *)
(*                                                                         *)
(* Conventions.                                                            *)
(*  - An Optional[...] field is a sequence: <<>> is None, <<v>> holds v.   *)
(*  - A confidence is an integer number of 1/1200ths: Conf(60) is 0.6.     *)
(*    The validator averages the values of a dict keyed by the four        *)
(*    domains, hence at most four values, and 1200 is divisible by 1..4,   *)
(*    so every mean of the confidences used here is an exact integer.      *)
(*    The rounding of the float arithmetic is not modelled.                *)
(*  - Timestamps (datetime.utcnow()), free text and the fields the         *)
(*    controller never reads or writes (user_input, tool_retry_count,      *)
(*    max_tool_retries, default_min_section_confidence) are left out.      *)
(*  - The answer of a tool adapter is known by whether it carries data or  *)
(*    reports a failure; tool_results is the list _run_research builds     *)
(*    from the three answers on its last call.                             *)
(***************************************************************************)
EXTENDS Integers, Sequences, FiniteSets

VARIABLES
    state,                  \* context.state
    research_plan,          \* context.research_plan         (Optional)
    research_report,        \* context.research_report       (Optional)
    validation_result,      \* context.validation_result     (Optional)
    human_review,           \* context.human_review          (Optional)
    final_mrd,              \* context.final_mrd             (Optional)
    research_retry_count,   \* context.research_retry_count
    events,                 \* context.events
    config,                 \* the AgentConfig of the machine
    pc,                     \* position of the caller in run()
    error,                  \* the exception that ended run(), if any
    start,                  \* the context run() was first called with
    tool_results            \* the tool_results list of the last _run_research

context == <<state, research_plan, research_report, validation_result,
             human_review, final_mrd, research_retry_count, events>>

vars == <<state, research_plan, research_report, validation_result,
          human_review, final_mrd, research_retry_count, events,
          config, pc, error, start, tool_results>>

-----------------------------------------------------------------------------
(* Bounds of the model *)

\* largest max_research_retries a configuration is drawn with
MaxRetries == 2

\* longest caller-supplied report whose sections come in any order and may
\* repeat a domain
MaxFreeSections == 2

-----------------------------------------------------------------------------
(* Data model: src/models *)

None == <<>>
Some(v) == <<v>>

Conf(percent) == percent * 12

PLANNING == "planning"
RESEARCH == "research"
VALIDATION == "validation"
HUMAN_REVIEW == "human_review"
SYNTHESIS == "synthesis"
COMPLETED == "completed"
FAILED == "failed"

AgentState == {PLANNING, RESEARCH, VALIDATION, HUMAN_REVIEW, SYNTHESIS,
               COMPLETED, FAILED}

MARKET == "market"
AUDIENCE == "audience"
COMPETITION == "competition"
REGULATION == "regulation"

\* the members of the enum, in declaration order
ResearchDomain == <<MARKET, AUDIENCE, COMPETITION, REGULATION>>

Domains == {ResearchDomain[i] : i \in 1..Len(ResearchDomain)}

PASS == "pass"
RETRY == "retry"
NEEDS_HUMAN_REVIEW == "human_review"
FAIL == "fail"

ValidationStatus == {PASS, RETRY, NEEDS_HUMAN_REVIEW, FAIL}

ValidationIssue(level, message, related_section) ==
    [level |-> level, message |-> message, related_section |-> related_section]

ValidationResult(status, issues, overall_confidence) ==
    [status |-> status, issues |-> issues,
     overall_confidence |-> overall_confidence]

SENSOR_TOWER == "sensor_tower"
SENTIMENT_ANALYSIS == "sentiment_analysis"
REGULATORY_CHECK == "regulatory_check"

\* the tools, in the order _run_research calls them
ToolName == <<SENSOR_TOWER, SENTIMENT_ANALYSIS, REGULATORY_CHECK>>

TOOL_SUCCESS == "success"
TOOL_EMPTY == "empty"
TOOL_FAILED == "failed"

ToolStatus == {TOOL_SUCCESS, TOOL_EMPTY, TOOL_FAILED}

ToolResult(tool_name, status, data) ==
    [tool_name |-> tool_name, status |-> status, data |-> data]

\* a finding is known by the number of tool results that support it
ResearchFinding(supporting_data) == [supporting_data |-> supporting_data]

ResearchSection(domain, findings, overall_confidence) ==
    [domain |-> domain, findings |-> findings,
     overall_confidence |-> overall_confidence]

ResearchReport(sections) == [sections |-> sections]

ResearchPlan(research_domains, minimum_overall_confidence) ==
    [research_domains |-> research_domains,
     minimum_overall_confidence |-> minimum_overall_confidence]

HumanReviewDecision(approved) == [approved |-> approved]

AgentEvent(new_state, message) == [state |-> new_state, message |-> message]

AgentConfig(max_research_retries, default_min_overall_confidence) ==
    [max_research_retries |-> max_research_retries,
     default_min_overall_confidence |-> default_min_overall_confidence]

-----------------------------------------------------------------------------
(* Helpers on sequences *)

RECURSIVE Sum(_)
Sum(xs) == IF xs = <<>> THEN 0 ELSE Head(xs) + Sum(Tail(xs))

RECURSIVE Concat(_)
Concat(seqs) == IF seqs = <<>> THEN <<>> ELSE Head(seqs) \o Concat(Tail(seqs))

\* statistics.mean: the exact mean; raises StatisticsError on no data
mean_raises(xs) == Len(xs) = 0
mean(xs) == Sum(xs) \div Len(xs)

-----------------------------------------------------------------------------
(* section_map = {section.domain: section for section in report.sections}  *)
(* A dict keeps one entry per key: a later section of the same domain      *)
(* replaces the earlier one, and the key keeps the position of its first   *)
(* insertion.                                                              *)

section_keys(sections) ==
    LET firsts == {i \in 1..Len(sections) :
                      \A j \in 1..(i - 1) :
                          sections[j].domain # sections[i].domain}
        Rank(i) == Cardinality({j \in firsts : j <= i})
    IN [k \in 1..Cardinality(firsts) |->
           sections[CHOOSE i \in firsts : Rank(i) = k].domain]

section_map(sections) ==
    [d \in {sections[i].domain : i \in 1..Len(sections)} |->
        LET last == CHOOSE i \in 1..Len(sections) :
                       /\ sections[i].domain = d
                       /\ \A j \in (i + 1)..Len(sections) : sections[j].domain # d
        IN sections[last]]

-----------------------------------------------------------------------------
(* Planner: _create_research_plan *)

\* variant: the plan carries a minimum of its own instead of the configured
_create_research_plan_fixed_minimum ==
    ResearchPlan(<<MARKET, AUDIENCE, COMPETITION, REGULATION>>, Conf(60))

_create_research_plan ==
    ResearchPlan(<<MARKET, AUDIENCE, COMPETITION, REGULATION>>,
                 config.default_min_overall_confidence)

-----------------------------------------------------------------------------
(* Research stage: _run_research.  The three tools are the fixed functions *)
(* of src/tools/external_tools.py; the report is the same on every call.   *)

_run_research_raises(plan) == plan = None

\* what an adapter answers: its data, or the report of a failure.  The
\* adapters of src/tools/external_tools.py are mocks that always answer
\* with data; they stand for external services, which can fail.
ToolResponses == {"data", "failure"}
\* the answers of the three adapters on one call of _run_research: all
\* three with data, or one of them with a failure
ToolResponseLists ==
    {responses \in [1..Len(ToolName) -> ToolResponses] :
        Cardinality({i \in 1..Len(ToolName) : responses[i] = "failure"}) <= 1}

\* the status _run_research writes into the ToolResult of a response
\* (state_machine.py:164, 176, 188)
recorded_status(response) == TOOL_SUCCESS

\* the list tool_results of _run_research (state_machine.py:158-194)
recorded_tool_results(responses) ==
    [i \in 1..Len(ToolName) |->
        ToolResult(ToolName[i], recorded_status(responses[i]), responses[i])]

\* variant: the Regulation section comes out at 0.5
_run_research_low_regulation(plan) ==
    ResearchReport(<<
        ResearchSection(MARKET, <<ResearchFinding(1)>>, Conf(80)),
        ResearchSection(AUDIENCE, <<ResearchFinding(1)>>, Conf(70)),
        ResearchSection(COMPETITION, <<ResearchFinding(1)>>, Conf(65)),
        ResearchSection(REGULATION, <<ResearchFinding(1)>>, Conf(50)) >>)

_run_research(plan) ==
    ResearchReport(<<
        ResearchSection(MARKET, <<ResearchFinding(1)>>, Conf(80)),
        ResearchSection(AUDIENCE, <<ResearchFinding(1)>>, Conf(70)),
        ResearchSection(COMPETITION, <<ResearchFinding(1)>>, Conf(65)),
        ResearchSection(REGULATION, <<ResearchFinding(1)>>, Conf(60)) >>)

-----------------------------------------------------------------------------
(* Validator: _validate_research *)

\* the regulatory gate of the validator
REGULATORY_GATE == Conf(60)

\* variant: the search for missing domains stops at the first one
missing_domain_issues_first_only(plan, smap) ==
    LET Missing(d) == d \notin DOMAIN smap
        missing == SelectSeq(plan.research_domains, Missing)
    IN [i \in 1..(IF missing = <<>> THEN 0 ELSE 1) |->
           ValidationIssue("error", "Missing required research domain",
                           missing[i])]

missing_domain_issues(plan, smap) ==
    LET Missing(d) == d \notin DOMAIN smap
        missing == SelectSeq(plan.research_domains, Missing)
    IN [i \in 1..Len(missing) |->
           ValidationIssue("error", "Missing required research domain",
                           missing[i])]

unsupported_finding_issues(section) ==
    LET Unsupported(f) == f.supporting_data = 0
        bare == SelectSeq(section.findings, Unsupported)
    IN [i \in 1..Len(bare) |->
           ValidationIssue("error", "Finding has no supporting tool data",
                           section.domain)]

\* the validator ends by raising StatisticsError instead of returning
_validate_research_raises(report, plan) ==
    /\ report # None
    /\ plan # None
    /\ LET smap == section_map(report[1].sections)
       IN /\ missing_domain_issues(plan[1], smap) = <<>>
          /\ mean_raises(section_keys(report[1].sections))

\* variant: the overall-confidence check runs before the regulatory gate
score_status_gate_last(regulatory_confidence, overall_confidence, minimum) ==
    IF overall_confidence < minimum
    THEN RETRY
    ELSE IF regulatory_confidence # None
            /\ regulatory_confidence[1] < REGULATORY_GATE
    THEN NEEDS_HUMAN_REVIEW
    ELSE PASS

\* the checks on the scores, in their order (state_machine.py:350-371)
score_status(regulatory_confidence, overall_confidence, minimum) ==
    IF regulatory_confidence # None
       /\ regulatory_confidence[1] < REGULATORY_GATE
    THEN NEEDS_HUMAN_REVIEW
    ELSE IF overall_confidence < minimum
    THEN RETRY
    ELSE PASS

\* variant: a section counts once per finding it holds
section_confidences_per_finding(smap, keys) ==
    Concat([i \in 1..Len(keys) |->
               [j \in 1..Len(smap[keys[i]].findings) |->
                   smap[keys[i]].overall_confidence]])

\* variant: a section with a finding without evidence scores nothing
section_confidences_discount_uncited(smap, keys) ==
    [i \in 1..Len(keys) |->
        IF \E j \in 1..Len(smap[keys[i]].findings) :
               smap[keys[i]].findings[j].supporting_data = 0
        THEN 0
        ELSE smap[keys[i]].overall_confidence]

\* the scores the loop over section_map.items() collects, one per entry
\* (state_machine.py:329-333)
section_confidences(smap, keys) ==
    [i \in 1..Len(keys) |-> smap[keys[i]].overall_confidence]

_validate_research(report, plan) ==
    IF report = None \/ plan = None
    THEN ValidationResult(FAIL,
             <<ValidationIssue("critical",
                   "Missing research report or research plan", "system")>>,
             0)
    ELSE
    LET smap    == section_map(report[1].sections)
        keys    == section_keys(report[1].sections)
        missing == missing_domain_issues(plan[1], smap)
    IN IF missing # <<>>
       THEN ValidationResult(RETRY, missing, 0)
       ELSE
       LET regulatory_confidence ==
               IF REGULATION \in DOMAIN smap
               THEN Some(smap[REGULATION].overall_confidence) ELSE None
           issues ==
               Concat([i \in 1..Len(keys) |->
                          unsupported_finding_issues(smap[keys[i]])])
           overall_confidence == mean(section_confidences(smap, keys))
       IN ValidationResult(
              score_status(regulatory_confidence, overall_confidence,
                           plan[1].minimum_overall_confidence),
              issues, overall_confidence)

-----------------------------------------------------------------------------
(* Reviewer: _get_human_decision *)

_get_human_decision_raises(validation) == validation = None

\* variant: the reviewer looks at the confidence only
_get_human_decision_ignores_critical(validation) ==
    HumanReviewDecision(validation[1].overall_confidence
                            >= config.default_min_overall_confidence)

_get_human_decision(validation) ==
    LET has_critical_issues ==
            \E i \in 1..Len(validation[1].issues) :
                validation[1].issues[i].level = "critical"
        approved ==
            /\ validation[1].overall_confidence
                   >= config.default_min_overall_confidence
            /\ ~has_critical_issues
    IN HumanReviewDecision(approved)

-----------------------------------------------------------------------------
(* Synthesizer: _synthesize_mrd *)

\* "RuntimeError" for a missing input, "KeyError" for a missing section,
\* "none" when the synthesizer returns
\* variant: the synthesizer also insists on a review decision
_synthesize_mrd_raises_without_review(report, validation) ==
    IF report = None \/ validation = None \/ human_review = None
    THEN "RuntimeError"
    ELSE IF \E d \in Domains : d \notin DOMAIN section_map(report[1].sections)
    THEN "KeyError"
    ELSE "none"

_synthesize_mrd_raises(report, validation) ==
    IF report = None \/ validation = None THEN "RuntimeError"
    ELSE IF \E d \in Domains : d \notin DOMAIN section_map(report[1].sections)
    THEN "KeyError"
    ELSE "none"

_synthesize_mrd(report, validation) ==
    LET smap == section_map(report[1].sections)
    IN [key_trends |-> Len(smap[MARKET].findings),
        behavioral_insights |-> Len(smap[AUDIENCE].findings),
        identified_gaps |-> Len(smap[COMPETITION].findings),
        features |-> Len(smap[COMPETITION].findings),
        regulatory_confidence |-> smap[REGULATION].overall_confidence,
        open_risks |-> Len(smap[REGULATION].findings),
        overall_confidence |-> validation[1].overall_confidence]

-----------------------------------------------------------------------------
(* The contexts and configurations run() is called with.  AgentContext and *)
(* AgentConfig are plain records built by the caller                       *)
(* (src/run_agent_test.py:5-23), who may hand over any state and fields.   *)

Context(s, plan, report, validation, review, mrd, count, evs) ==
    [state |-> s, research_plan |-> plan, research_report |-> report,
     validation_result |-> validation, human_review |-> review,
     final_mrd |-> mrd, research_retry_count |-> count, events |-> evs]

\* the context of the end-to-end test
FreshContext == Context(PLANNING, None, None, None, None, None, 0, <<>>)

RetryLimits == -1..MaxRetries
MinConfidences == {Conf(65), Conf(70)}

Configs == {AgentConfig(m, c) : m \in RetryLimits, c \in MinConfidences}

\* the configuration of the end-to-end test
TestConfig == AgentConfig(3, Conf(65))

SectionConfidences == {Conf(40), Conf(60), Conf(80)}
FindingLists == {<<ResearchFinding(1)>>,
                 <<ResearchFinding(0), ResearchFinding(1)>>}

SectionsOf(d) == {ResearchSection(d, f, c) :
                     f \in FindingLists, c \in SectionConfidences}
Sections == UNION {SectionsOf(d) : d \in Domains}

\* at most one section per domain, in the order of the enum
RECURSIVE OrderedSections(_)
OrderedSections(ds) ==
    IF ds = <<>> THEN {<<>>}
    ELSE LET rest == OrderedSections(Tail(ds))
         IN rest \cup {<<s>> \o r : s \in SectionsOf(Head(ds)), r \in rest}

\* any sections in any order, domains repeated or not
FreeSectionChoices ==
    {ResearchSection(d, <<ResearchFinding(1)>>, c) :
        d \in Domains, c \in SectionConfidences}
FreeSections ==
    UNION {[1..n -> FreeSectionChoices] : n \in 0..MaxFreeSections}

Reports == {ResearchReport(ss) :
               ss \in OrderedSections(ResearchDomain) \cup FreeSections}

\* research_domains of a caller-supplied plan: each required domain once
PlanDomainLists == {<<>>, <<REGULATION>>, <<MARKET, AUDIENCE>>,
                    <<AUDIENCE, REGULATION>>,
                    <<MARKET, AUDIENCE, COMPETITION, REGULATION>>}
Plans == {ResearchPlan(ds, c) :
             ds \in PlanDomainLists, c \in {Conf(60), Conf(70)}}

Optional(S) == {None} \cup {Some(v) : v \in S}

\* a context handed to the validator: any report against any plan
ValidationContexts ==
    {Context(VALIDATION, plan, report, None, None, None, 0, <<>>) :
        plan \in Optional(Plans), report \in Optional(Reports)}

\* a context picked up at any stage, with any of its fields set or unset
CriticalIssue ==
    ValidationIssue("critical", "Missing research report or research plan",
                    "system")
ResumedPlans == {ResearchPlan(ResearchDomain, Conf(65))}
ResumedReports ==
    {_run_research(None),
     ResearchReport(<<ResearchSection(MARKET, <<ResearchFinding(1)>>, Conf(80)),
                      ResearchSection(REGULATION, <<ResearchFinding(1)>>,
                                      Conf(40))>>)}
ResumedValidations ==
    {ValidationResult(PASS, <<>>, Conf(70)),
     ValidationResult(NEEDS_HUMAN_REVIEW, <<>>, Conf(75)),
     ValidationResult(NEEDS_HUMAN_REVIEW, <<>>, Conf(60)),
     ValidationResult(NEEDS_HUMAN_REVIEW, <<CriticalIssue>>, Conf(75))}
ResumedReviews == {HumanReviewDecision(TRUE)}
ResumedDocuments ==
    {_synthesize_mrd(Some(_run_research(None)),
                     Some(ValidationResult(PASS, <<>>, Conf(70))))}
ResumedEvents == {<<>>, <<AgentEvent(RESEARCH, "Research plan created")>>}

ResumedWith(reviews, documents, logs) ==
    {Context(s, plan, report, validation, review, mrd, count, evs) :
        s \in AgentState,
        plan \in Optional(ResumedPlans),
        report \in Optional(ResumedReports),
        validation \in Optional(ResumedValidations),
        review \in reviews,
        mrd \in documents,
        count \in 0..(MaxRetries + 1),
        evs \in logs}

ResumedContexts ==
    ResumedWith(Optional(ResumedReviews), Optional(ResumedDocuments),
                ResumedEvents)

\* a context handed to the reviewer: any validation result, with or
\* without the plan and the report
ReviewIssueLists ==
    {<<>>,
     <<ValidationIssue("error", "Finding has no supporting tool data",
                       MARKET)>>,
     <<CriticalIssue>>,
     <<ValidationIssue("error", "Finding has no supporting tool data",
                       MARKET), CriticalIssue>>}
ReviewConfidences == {0, Conf(60), Conf(65), Conf(70), Conf(75)}
ReviewValidations ==
    {ValidationResult(s, issues, c) :
        s \in ValidationStatus, issues \in ReviewIssueLists,
        c \in ReviewConfidences}
ReviewContexts ==
    {Context(HUMAN_REVIEW, plan, report, Some(validation), None, None, 0,
             <<>>) :
        plan \in Optional(ResumedPlans),
        report \in Optional({_run_research(None)}),
        validation \in ReviewValidations}

\* the calls of run(): a context and the configuration of its machine
ValidationConfigs == {AgentConfig(1, Conf(65))}
ResumedConfigs == {AgentConfig(m, Conf(65)) : m \in RetryLimits}

Runs ==
    ({FreshContext} \X (Configs \cup {TestConfig}))
        \cup (ValidationContexts \X ValidationConfigs)
        \cup (ResumedContexts \X ResumedConfigs)
        \cup (ReviewContexts \X Configs)

\* the runs whose termination is followed: the fresh start under every
\* configuration, and every stage resumed with a clean log
LiveRuns ==
    ({FreshContext} \X (Configs \cup {TestConfig}))
        \cup (ResumedWith({None}, {None}, {<<>>}) \X ResumedConfigs)

StartOf(runs) ==
    \E r \in runs :
        /\ state = r[1].state
        /\ research_plan = r[1].research_plan
        /\ research_report = r[1].research_report
        /\ validation_result = r[1].validation_result
        /\ human_review = r[1].human_review
        /\ final_mrd = r[1].final_mrd
        /\ research_retry_count = r[1].research_retry_count
        /\ events = r[1].events
        /\ config = r[2]
        /\ pc = "running"
        /\ error = "none"
        /\ start = r[1]
        /\ tool_results = <<>>

Init == StartOf(Runs)

LiveInit == StartOf(LiveRuns)

-----------------------------------------------------------------------------
(* Workflow controller *)

Terminal == {COMPLETED, FAILED}

\* pc: inside the first call of run() or inside a later one, or after a
\* call that returned or raised
Running == {"running", "running again"}

\* one turn of the loop of run(): the branch taken in state s
run_dispatches(s) ==
    /\ pc \in Running
    /\ state \notin Terminal
    /\ state = s

\* variant: the stage marks the run failed before the exception leaves
raise_marks_failed(exception) ==
    /\ pc' = "raised"
    /\ error' = exception
    /\ state' = FAILED
    /\ UNCHANGED <<research_plan, research_report, validation_result,
                   human_review, final_mrd, research_retry_count, events,
                   config, start, tool_results>>

\* an exception leaves run(); the handlers raise before they assign
raise(exception) ==
    /\ pc' = "raised"
    /\ error' = exception
    /\ UNCHANGED <<context, config, start, tool_results>>

\* variant: the state changes without an audit event
_transition_unlogged(new_state, message) ==
    /\ events' = events
    /\ state' = new_state

\* variant: the newest event is put first
_transition_prepends(new_state, message) ==
    /\ events' = <<AgentEvent(new_state, message)>> \o events
    /\ state' = new_state

_transition(new_state, message) ==
    /\ events' = Append(events, AgentEvent(new_state, message))
    /\ state' = new_state

\* variant: drawing up the plan is counted as a research attempt
_handle_planning_counts_attempt ==
    /\ run_dispatches(PLANNING)
    /\ research_plan' = Some(_create_research_plan)
    /\ research_retry_count' = research_retry_count + 1
    /\ _transition(RESEARCH, "Research plan created")
    /\ UNCHANGED <<research_report, validation_result, human_review,
                   final_mrd, config, pc, error, start, tool_results>>

_handle_planning ==
    /\ run_dispatches(PLANNING)
    /\ research_plan' = Some(_create_research_plan)
    /\ _transition(RESEARCH, "Research plan created")
    /\ UNCHANGED <<research_report, validation_result, human_review,
                   final_mrd, research_retry_count, config, pc, error, start,
                   tool_results>>

\* variant: the budget check lets one attempt too many through
retries_exhausted_off_by_one(count, limit) == count > limit

\* the budget check of _handle_research (state_machine.py:83)
retries_exhausted(count, limit) == count >= limit

\* variant: the attempt is not counted
count_attempt_forgotten(count) == count

\* variant: the attempt is counted twice
count_attempt_twice(count) == count + 2

\* self.context.research_retry_count += 1 (state_machine.py:89)
count_attempt(count) == count + 1

\* variant: a new research attempt throws the last verdict away
_handle_research_clears_validation ==
    /\ run_dispatches(RESEARCH)
    /\ IF retries_exhausted(research_retry_count, config.max_research_retries)
       THEN /\ _transition(FAILED, "Exceeded maximum research retries")
            /\ UNCHANGED <<research_plan, research_report, validation_result,
                           human_review, final_mrd, research_retry_count,
                           config, pc, error, start, tool_results>>
       ELSE IF _run_research_raises(research_plan)
       THEN raise("RuntimeError")
       ELSE /\ \E responses \in ToolResponseLists :
                   tool_results' = recorded_tool_results(responses)
            /\ research_report' = Some(_run_research(research_plan))
            /\ validation_result' = None
            /\ research_retry_count' = count_attempt(research_retry_count)
            /\ _transition(VALIDATION, "Research completed")
            /\ UNCHANGED <<research_plan, human_review, final_mrd, config,
                           pc, error, start>>

\* variant: the report is built and not stored
_handle_research_drops_report ==
    /\ run_dispatches(RESEARCH)
    /\ IF retries_exhausted(research_retry_count, config.max_research_retries)
       THEN /\ _transition(FAILED, "Exceeded maximum research retries")
            /\ UNCHANGED <<research_plan, research_report, validation_result,
                           human_review, final_mrd, research_retry_count,
                           config, pc, error, start, tool_results>>
       ELSE IF _run_research_raises(research_plan)
       THEN raise("RuntimeError")
       ELSE /\ \E responses \in ToolResponseLists :
                   tool_results' = recorded_tool_results(responses)
            /\ research_report' = research_report
            /\ research_retry_count' = count_attempt(research_retry_count)
            /\ _transition(VALIDATION, "Research completed")
            /\ UNCHANGED <<research_plan, validation_result, human_review,
                           final_mrd, config, pc, error, start>>

_handle_research ==
    /\ run_dispatches(RESEARCH)
    /\ IF retries_exhausted(research_retry_count, config.max_research_retries)
       THEN /\ _transition(FAILED, "Exceeded maximum research retries")
            /\ UNCHANGED <<research_plan, research_report, validation_result,
                           human_review, final_mrd, research_retry_count,
                           config, pc, error, start, tool_results>>
       ELSE IF _run_research_raises(research_plan)
       THEN raise("RuntimeError")
       ELSE /\ \E responses \in ToolResponseLists :
                   tool_results' = recorded_tool_results(responses)
            /\ research_report' = Some(_run_research(research_plan))
            /\ research_retry_count' = count_attempt(research_retry_count)
            /\ _transition(VALIDATION, "Research completed")
            /\ UNCHANGED <<research_plan, validation_result, human_review,
                           final_mrd, config, pc, error, start>>

\* variant: a retry verdict is treated like a pass
after_validation_retry_passes(status) ==
    IF status = PASS \/ status = RETRY
    THEN <<SYNTHESIS, "Validation passed">>
    ELSE IF status = NEEDS_HUMAN_REVIEW
    THEN <<HUMAN_REVIEW, "Validation requires human review">>
    ELSE <<FAILED, "Validation failed">>

\* the branch of _handle_validation on the status (state_machine.py:96-106)
after_validation(status) ==
    IF status = PASS
    THEN <<SYNTHESIS, "Validation passed">>
    ELSE IF status = RETRY
    THEN <<RESEARCH, "Validation requested retry">>
    ELSE IF status = NEEDS_HUMAN_REVIEW
    THEN <<HUMAN_REVIEW, "Validation requires human review">>
    ELSE <<FAILED, "Validation failed">>

_handle_validation ==
    /\ run_dispatches(VALIDATION)
    /\ IF _validate_research_raises(research_report, research_plan)
       THEN raise("StatisticsError")
       ELSE LET result == _validate_research(research_report, research_plan)
            IN /\ validation_result' = Some(result)
               /\ _transition(after_validation(result.status)[1],
                              after_validation(result.status)[2])
               /\ UNCHANGED <<research_plan, research_report, human_review,
                              final_mrd, research_retry_count, config, pc,
                              error, start, tool_results>>

\* variant: a rejected report is sent back to the research stage
after_review_reject_retries(approved) ==
    IF approved
    THEN <<SYNTHESIS, "Human review approved">>
    ELSE <<RESEARCH, "Human review rejected">>

\* the branch of _handle_human_review on the decision
\* (state_machine.py:113-116)
after_review(approved) ==
    IF approved
    THEN <<SYNTHESIS, "Human review approved">>
    ELSE <<FAILED, "Human review rejected">>

_handle_human_review ==
    /\ run_dispatches(HUMAN_REVIEW)
    /\ IF _get_human_decision_raises(validation_result)
       THEN raise("RuntimeError")
       ELSE LET decision == _get_human_decision(validation_result)
            IN /\ human_review' = Some(decision)
               /\ _transition(after_review(decision.approved)[1],
                              after_review(decision.approved)[2])
               /\ UNCHANGED <<research_plan, research_report,
                              validation_result, final_mrd,
                              research_retry_count, config, pc, error, start,
                              tool_results>>

\* variant: the document is built and not stored
_handle_synthesis_drops_mrd ==
    /\ run_dispatches(SYNTHESIS)
    /\ IF _synthesize_mrd_raises(research_report, validation_result) # "none"
       THEN raise(_synthesize_mrd_raises(research_report, validation_result))
       ELSE /\ _transition(COMPLETED, "MRD synthesis completed")
            /\ UNCHANGED <<research_plan, research_report, validation_result,
                           human_review, final_mrd, research_retry_count,
                           config, pc, error, start, tool_results>>

_handle_synthesis ==
    /\ run_dispatches(SYNTHESIS)
    /\ IF _synthesize_mrd_raises(research_report, validation_result) # "none"
       THEN raise(_synthesize_mrd_raises(research_report, validation_result))
       ELSE /\ final_mrd' =
                   Some(_synthesize_mrd(research_report, validation_result))
            /\ _transition(COMPLETED, "MRD synthesis completed")
            /\ UNCHANGED <<research_plan, research_report, validation_result,
                           human_review, research_retry_count, config, pc,
                           error, start, tool_results>>

\* variant: the loop of run() only ends on Completed
run_returns_on_completed_only ==
    /\ pc \in Running
    /\ state = COMPLETED
    /\ pc' = "returned"
    /\ UNCHANGED <<context, config, error, start, tool_results>>

\* the loop condition of run() fails and run() returns
run_returns ==
    /\ pc \in Running
    /\ state \in Terminal
    /\ pc' = "returned"
    /\ UNCHANGED <<context, config, error, start, tool_results>>

\* variant: a new call of run() starts the workflow over
run_restarts ==
    /\ pc \in {"returned", "raised"}
    /\ pc' = "running again"
    /\ error' = "none"
    /\ state' = PLANNING
    /\ UNCHANGED <<research_plan, research_report, validation_result,
                   human_review, final_mrd, research_retry_count, events,
                   config, start, tool_results>>

\* run() is called again on the context an earlier call left behind
run ==
    /\ pc \in {"returned", "raised"}
    /\ pc' = "running again"
    /\ error' = "none"
    /\ UNCHANGED <<context, config, start, tool_results>>

Step ==
    \/ _handle_planning
    \/ _handle_research
    \/ _handle_validation
    \/ _handle_human_review
    \/ _handle_synthesis
    \/ run_returns

Next == Step \/ run

Spec == Init /\ [][Next]_vars

\* run() is sequential code: a call that can take a step takes it
LiveSpec == LiveInit /\ [][Next]_vars /\ WF_vars(Step)

-----------------------------------------------------------------------------
(* Properties *)

\* the start of the end-to-end test: Planning, counter 0, no events
StartedFresh ==
    /\ start.state = PLANNING
    /\ start.research_retry_count = 0
    /\ start.events = <<>>

\* the events this run appended to the log it was given
NewEvents == SubSeq(events, Len(start.events) + 1, Len(events))

LastEvent == events[Len(events)]

ValidationMessages ==
    {"Validation passed", "Validation requested retry",
     "Validation requires human review", "Validation failed"}

\* the last step of the run was a validation: the context still holds the
\* report and the plan the validator read, and holds its result
JustValidated ==
    /\ NewEvents # <<>>
    /\ LastEvent.message \in ValidationMessages

\* C1: a run started in Planning with counter 0, an empty log and
\* max_research_retries >= 0 eventually reaches Completed or Failed (one
\* state, hence exactly one of the two) and run() then returns.
C1_RunTerminates ==
    (StartedFresh /\ config.max_research_retries >= 0)
        => <>(pc = "returned" /\ state \in Terminal)

C1_Witness ==
    /\ StartedFresh
    /\ config.max_research_retries >= 2
    /\ pc = "returned"
    /\ state = FAILED
    /\ research_retry_count = config.max_research_retries

\* C2: in every state of a run started with counter 0 and
\* max_research_retries >= 0, research_retry_count <= max_research_retries.
C2_RetryCountBounded ==
    (start.research_retry_count = 0 /\ config.max_research_retries >= 0)
        => research_retry_count <= config.max_research_retries

C2_Witness ==
    /\ start.research_retry_count = 0
    /\ config.max_research_retries >= 2
    /\ research_retry_count = config.max_research_retries
    /\ state = RESEARCH

\* the rows of the transition table, read on one step
TransitionRow ==
    \/ state = PLANNING /\ state' = RESEARCH
    \/ /\ state = RESEARCH
       /\ research_retry_count >= config.max_research_retries
       /\ state' = FAILED
    \/ /\ state = RESEARCH
       /\ research_retry_count < config.max_research_retries
       /\ state' = VALIDATION
    \/ /\ state = VALIDATION
       /\ validation_result' # None
       /\ \/ validation_result'[1].status = PASS /\ state' = SYNTHESIS
          \/ validation_result'[1].status = RETRY /\ state' = RESEARCH
          \/ /\ validation_result'[1].status = NEEDS_HUMAN_REVIEW
             /\ state' = HUMAN_REVIEW
          \/ validation_result'[1].status = FAIL /\ state' = FAILED
    \/ /\ state = HUMAN_REVIEW
       /\ human_review' # None
       /\ \/ human_review'[1].approved /\ state' = SYNTHESIS
          \/ ~human_review'[1].approved /\ state' = FAILED
    \/ state = SYNTHESIS /\ state' = COMPLETED

\* C3: every change of context.state is a row of the transition table.
C3_TransitionTable == [][state' # state => TransitionRow]_vars

C3_Witness ==
    /\ start.state = VALIDATION
    /\ state = COMPLETED
    /\ human_review # None
    /\ Len(events) = 3

\* one step of the run and the log: a change of state appends one event
\* carrying the new state, anything else appends nothing
StepIsLogged ==
    IF state' # state
    THEN /\ Len(events') = Len(events) + 1
         /\ SubSeq(events', 1, Len(events)) = events
         /\ events'[Len(events')].state = state'
    ELSE events' = events

\* C4: the audit log mirrors the state sequence: each change of
\* context.state appends exactly one event whose state is the new state
\* and nothing else touches the log, so the events of the run are the
\* states entered, in order, and the last one is context.state.
C4_LogMirrorsStates ==
    /\ [][StepIsLogged]_vars
    /\ [](NewEvents # <<>> => LastEvent.state = state)

C4_Witness ==
    /\ StartedFresh
    /\ state = COMPLETED
    /\ [i \in 1..Len(events) |-> events[i].state]
           = <<RESEARCH, VALIDATION, SYNTHESIS, COMPLETED>>

\* C5: a run started in Planning with final_mrd unset ends with final_mrd
\* set exactly when it ends in Completed, and final_mrd is unset in every
\* state with state = Failed.
C5_DocumentIffCompleted ==
    (start.state = PLANNING /\ start.final_mrd = None)
        => /\ pc \in {"returned", "raised"}
                  => (final_mrd # None <=> state = COMPLETED)
           /\ state = FAILED => final_mrd = None

C5_Witness ==
    /\ start.state = PLANNING
    /\ start.final_mrd = None
    /\ pc = "returned"
    /\ state = COMPLETED
    /\ final_mrd # None

\* C6: once context.state is Completed or Failed no step changes the
\* context: no transition, no event, no field, also when run() is called
\* again.
C6_TerminalStatesAreFinal ==
    [][(state \in Terminal) => UNCHANGED context]_vars

C6_Witness ==
    /\ state \in Terminal
    /\ pc = "running again"
    /\ NewEvents # <<>>

\* every validation of the run so far asked for a retry
EveryValidationRetried ==
    \A i \in 1..Len(events) :
        events[i].message \in ValidationMessages
            => events[i].message = "Validation requested retry"

IsReport(e) == e.message = "Research completed"

\* the reports the research stage produced, by the log
ReportsProduced == Len(SelectSeq(events, IsReport))

\* C7: in a run started in Planning with counter 0 in which every
\* validation returns retry, the research stage produces exactly
\* max_research_retries reports, each followed by a return to Research,
\* and the run ends in Failed; with max_research_retries = 0 no report is
\* produced.
C7_SharedRetryBudget ==
    (/\ StartedFresh
     /\ config.max_research_retries >= 0
     /\ pc = "returned"
     /\ EveryValidationRetried)
        => /\ state = FAILED
           /\ ReportsProduced = config.max_research_retries
           /\ research_retry_count = config.max_research_retries
           /\ \A i \in 1..Len(events) :
                  IsReport(events[i]) =>
                      /\ i + 1 < Len(events)
                      /\ events[i + 1].message = "Validation requested retry"
                      /\ events[i + 1].state = RESEARCH
           /\ config.max_research_retries = 0 =>
                  research_report = start.research_report

C7_Witness ==
    /\ StartedFresh
    /\ config.max_research_retries >= 2
    /\ pc = "returned"
    /\ EveryValidationRetried
    /\ ReportsProduced = config.max_research_retries

\* the domains the plan requires that have no section in the report, in
\* the order of the plan
MissingRequired(report, plan) ==
    LET Absent(d) ==
            \A i \in 1..Len(report.sections) : report.sections[i].domain # d
    IN SelectSeq(plan.research_domains, Absent)

\* C8: for a present report and plan with a required domain missing from
\* the report, the validator returns retry with overall_confidence 0 and
\* exactly one error issue per missing domain.
C8_MissingDomainRetries ==
    (/\ JustValidated
     /\ research_report # None
     /\ research_plan # None
     /\ MissingRequired(research_report[1], research_plan[1]) # <<>>)
        => LET missing ==
                   MissingRequired(research_report[1], research_plan[1])
               result == validation_result[1]
           IN /\ result.status = RETRY
              /\ result.overall_confidence = 0
              /\ Len(result.issues) = Len(missing)
              /\ \A i \in 1..Len(missing) :
                     /\ result.issues[i].level = "error"
                     /\ result.issues[i].related_section = missing[i]

C8_Witness ==
    /\ JustValidated
    /\ research_report # None
    /\ research_plan # None
    /\ Len(MissingRequired(research_report[1], research_plan[1])) = 2
    /\ \E i \in 1..Len(research_report[1].sections) :
           /\ research_report[1].sections[i].domain = REGULATION
           /\ research_report[1].sections[i].overall_confidence < Conf(60)

HasLowRegulation(report) ==
    \E i \in 1..Len(report.sections) :
        /\ report.sections[i].domain = REGULATION
        /\ report.sections[i].overall_confidence < Conf(60)

\* the Regulation section of the report that counts: the last one
LastRegulationIsLow(report) ==
    \E i \in 1..Len(report.sections) :
        /\ report.sections[i].domain = REGULATION
        /\ report.sections[i].overall_confidence < Conf(60)
        /\ \A j \in (i + 1)..Len(report.sections) :
               report.sections[j].domain # REGULATION

\* the data model's rule for a report: no two sections of one domain
UniqueDomains(report) ==
    \A i, j \in 1..Len(report.sections) :
        report.sections[i].domain = report.sections[j].domain => i = j

\* C9 as stated: a report with a Regulation section of confidence below
\* 0.6 always yields human_review, whatever else is in the report.  Read
\* in the claim's favour: the plan is present and the report repeats no
\* domain.
C9_AsStated ==
    (/\ JustValidated
     /\ research_report # None
     /\ research_plan # None
     /\ UniqueDomains(research_report[1])
     /\ HasLowRegulation(research_report[1]))
        => validation_result[1].status = NEEDS_HUMAN_REVIEW

\* C9 (amended): when no domain required by the plan is missing from the
\* report and the Regulation section of the report (the last one, if the
\* report repeats the domain) has confidence below 0.6, the validator
\* returns human_review, whatever the other scores, the overall
\* confidence and the issues.
C9_RegulatoryGate ==
    (/\ JustValidated
     /\ research_report # None
     /\ research_plan # None
     /\ MissingRequired(research_report[1], research_plan[1]) = <<>>
     /\ LastRegulationIsLow(research_report[1]))
        => validation_result[1].status = NEEDS_HUMAN_REVIEW

C9_Witness ==
    /\ JustValidated
    /\ research_report # None
    /\ research_plan # None
    /\ MissingRequired(research_report[1], research_plan[1]) = <<>>
    /\ LastRegulationIsLow(research_report[1])
    /\ validation_result[1].status = NEEDS_HUMAN_REVIEW
    /\ validation_result[1].overall_confidence
           < research_plan[1].minimum_overall_confidence
    /\ validation_result[1].issues # <<>>

\* the decision the ordered checks prescribe.  The overall confidence is
\* the mean of the section confidences, compared with the minimum without
\* dividing: sum < minimum * count.
ReferenceStatus(report, plan) ==
    IF report = None \/ plan = None THEN FAIL
    ELSE IF MissingRequired(report[1], plan[1]) # <<>> THEN RETRY
    ELSE IF HasLowRegulation(report[1]) THEN NEEDS_HUMAN_REVIEW
    ELSE IF Sum([i \in 1..Len(report[1].sections) |->
                    report[1].sections[i].overall_confidence])
              < plan[1].minimum_overall_confidence * Len(report[1].sections)
    THEN RETRY
    ELSE PASS

WellFormed(report) == report # None => UniqueDomains(report[1])

\* C10: for every report and plan the validator returns a result, and its
\* status is the one the ordered checks prescribe: fail, else retry for a
\* missing domain, else human_review for low Regulation confidence, else
\* retry for low overall confidence, else pass.  Reports are taken as the
\* data model has them, with no domain repeated.
C10_ReferenceDecision ==
    /\ ~(pc = "raised" /\ state = VALIDATION)
    /\ (JustValidated /\ WellFormed(research_report))
           => validation_result[1].status
                  = ReferenceStatus(research_report, research_plan)

\* whenever the validator does return, it returns the reference decision
ReferenceDecisionWhenReturned ==
    (JustValidated /\ WellFormed(research_report))
        => validation_result[1].status
               = ReferenceStatus(research_report, research_plan)

\* the validator only fails to return for a report without sections
\* checked against a plan without required domains
ValidatorRaisesOnlyOnEmpty ==
    (pc = "raised" /\ state = VALIDATION)
        => /\ error = "StatisticsError"
           /\ research_report[1].sections = <<>>
           /\ research_plan[1].research_domains = <<>>

\* the confidences of all the sections of a report, in report order
AllSectionConfidences(report) ==
    [i \in 1..Len(report.sections) |-> report.sections[i].overall_confidence]

\* the findings of all the sections of a report, counted
FindingCount(report) ==
    Sum([i \in 1..Len(report.sections) |-> Len(report.sections[i].findings)])

\* the sum of the section confidences, each weighted by its finding count
FindingWeightedSum(report) ==
    Sum([i \in 1..Len(report.sections) |->
            Len(report.sections[i].findings)
                * report.sections[i].overall_confidence])

\* the validator got past the missing-domain check and scored the report
ScoredReport ==
    /\ JustValidated
    /\ research_report # None
    /\ research_plan # None
    /\ UniqueDomains(research_report[1])
    /\ MissingRequired(research_report[1], research_plan[1]) = <<>>

\* C11: when no required domain is missing, the overall_confidence of the
\* validation result is the unweighted arithmetic mean of the
\* overall_confidence of all the sections of the report, whatever the
\* number of findings of each section: overall_confidence * count = sum.
\* Checked for reports of 1 to 4 sections, no domain repeated.
C11_UnweightedMean ==
    ScoredReport
        => validation_result[1].overall_confidence
               * Len(research_report[1].sections)
           = Sum(AllSectionConfidences(research_report[1]))

\* a report of three sections whose finding-weighted mean is another number
C11_Witness ==
    /\ ScoredReport
    /\ Len(research_report[1].sections) = 3
    /\ validation_result[1].overall_confidence
           * Len(research_report[1].sections)
       = Sum(AllSectionConfidences(research_report[1]))
    /\ validation_result[1].overall_confidence
           * FindingCount(research_report[1])
       # FindingWeightedSum(research_report[1])

ReviewMessages == {"Human review approved", "Human review rejected"}

\* the last step of the run was a review: the context holds the validation
\* result the reviewer read, and holds the decision
JustReviewed ==
    /\ NewEvents # <<>>
    /\ LastEvent.message \in ReviewMessages

HasCritical(validation) ==
    \E i \in 1..Len(validation.issues) :
        validation.issues[i].level = "critical"

\* C12: for every validation result and configuration, the decision of the
\* reviewer has approved = true exactly when the overall_confidence of the
\* validation result is at least the configured minimum overall confidence
\* and no issue of the validation result has level critical.
C12_ApprovesIff ==
    JustReviewed
        => (human_review[1].approved
               <=> /\ validation_result[1].overall_confidence
                         >= config.default_min_overall_confidence
                   /\ ~HasCritical(validation_result[1]))

\* a rejection that only the critical issue explains, at the minimum
C12_Witness ==
    /\ JustReviewed
    /\ validation_result[1].overall_confidence
           = config.default_min_overall_confidence
    /\ HasCritical(validation_result[1])
    /\ Len(validation_result[1].issues) = 2
    /\ ~human_review[1].approved

\* the reviewer decided in this run
Reviewed ==
    \E i \in (Len(start.events) + 1)..Len(events) :
        events[i].message \in ReviewMessages

\* the states the run entered from the decision of the reviewer on
ReviewTrail ==
    LET decided == CHOOSE i \in (Len(start.events) + 1)..Len(events) :
                       events[i].message \in ReviewMessages
    IN [k \in 1..(Len(events) - decided + 1) |->
           events[decided + k - 1].state]

\* the outcome of a reviewed run: approved goes to Synthesis and then to
\* Completed with an MRD, rejected goes to Failed with no MRD, and the
\* run enters no other state on the way and ends nowhere else
ReviewDecidesOutcome ==
    IF human_review[1].approved
    THEN /\ ReviewTrail \in {<<SYNTHESIS>>, <<SYNTHESIS, COMPLETED>>}
         /\ state = COMPLETED <=> final_mrd # None
         /\ pc \in {"returned", "raised"}
                => pc = "returned" /\ state = COMPLETED
    ELSE /\ ReviewTrail = <<FAILED>>
         /\ state = FAILED
         /\ final_mrd = None
         /\ pc # "raised"

\* every domain has a section in the report of the context
ReportCoversAllDomains ==
    /\ research_report # None
    /\ \A d \in Domains :
           \E i \in 1..Len(research_report[1].sections) :
               research_report[1].sections[i].domain = d

\* the validator of this run sent the report to the reviewer
EnteredReview ==
    \E i \in (Len(start.events) + 1)..Len(events) :
        events[i].state = HUMAN_REVIEW

\* C13 as stated: once a run enters HumanReview the review alone decides
\* its outcome, whatever the report.  Read in the claim's favour: the run
\* started with no MRD and entered HumanReview from Validation, hence
\* with a plan, a report and a validation result.
C13_AsStated ==
    (EnteredReview /\ Reviewed /\ start.final_mrd = None)
        => ReviewDecidesOutcome

\* C13 (amended): once a run that started with no MRD is in HumanReview
\* with a report that has a section for each of the four domains, the
\* review decides its outcome: approved goes HumanReview -> Synthesis ->
\* Completed with an MRD, rejected (low confidence or a critical issue)
\* goes HumanReview -> Failed with no MRD, and the run never returns to
\* Research or Validation.
C13_ReviewDecides ==
    (Reviewed /\ start.final_mrd = None /\ ReportCoversAllDomains)
        => ReviewDecidesOutcome

\* scenario C: the validator sent the report to the reviewer, who approved
C13_Witness ==
    /\ Reviewed
    /\ start.final_mrd = None
    /\ ReportCoversAllDomains
    /\ start.state = VALIDATION
    /\ human_review[1].approved
    /\ pc = "returned"
    /\ state = COMPLETED
    /\ final_mrd # None
    /\ [i \in 1..Len(events) |-> events[i].state]
           = <<HUMAN_REVIEW, SYNTHESIS, COMPLETED>>

\* the call of the end-to-end test
EndToEndTest == start = FreshContext /\ config = TestConfig

\* what the end-to-end test leaves in the context
EndToEndOutcome ==
    /\ state = COMPLETED
    /\ final_mrd # None
    /\ research_retry_count = 1
    /\ validation_result # None
    /\ validation_result[1].status = PASS
    /\ [i \in 1..Len(events) |-> events[i].state]
           = <<RESEARCH, VALIDATION, SYNTHESIS, COMPLETED>>

\* C14: the end-to-end run of the test (Planning, counter 0,
\* max_research_retries = 3, minimum overall confidence 0.65, the built-in
\* research stage) passes validation on the first attempt and ends in
\* Completed with final_mrd set, research_retry_count = 1 and the event
\* states Research, Validation, Synthesis, Completed in that order.
C14_EndToEndTest ==
    EndToEndTest => <>(pc = "returned" /\ EndToEndOutcome)

C14_Witness ==
    /\ EndToEndTest
    /\ pc = "returned"
    /\ EndToEndOutcome
    /\ final_mrd[1].overall_confidence * 4
           = Conf(80) + Conf(70) + Conf(65) + Conf(60)

\* the step is an invocation of the research stage that returned a report
ResearchInvoked ==
    /\ Len(events') = Len(events) + 1
    /\ IsReport(events'[Len(events')])

\* the reports the research stage produced in this run, by the log
NewReportsProduced == Len(SelectSeq(NewEvents, IsReport))

\* one step of the run and the counter
StepCountsAttempt ==
    IF ResearchInvoked
    THEN /\ state = RESEARCH
         /\ research_report' = Some(_run_research(research_plan))
         /\ research_retry_count' = research_retry_count + 1
         /\ state' = VALIDATION
    ELSE research_retry_count' = research_retry_count

\* C15: each invocation of the research stage that returns a report
\* increases research_retry_count by exactly 1, in the step that stores
\* the report and moves to Validation, and no other step (planning,
\* validation, human review, synthesis, a research stage that gives up)
\* changes research_retry_count: the counter is its starting value plus
\* the number of reports produced.
C15_CountsEachAttempt ==
    /\ [][StepCountsAttempt]_vars
    /\ [](research_retry_count
              = start.research_retry_count + NewReportsProduced)

C15_Witness ==
    /\ StartedFresh
    /\ NewReportsProduced = 2
    /\ research_retry_count = 2
    /\ state = VALIDATION
    /\ research_report = Some(_run_research(research_plan))

\* the five optional fields of the context
OptionalFields ==
    <<research_plan, research_report, validation_result, human_review,
      final_mrd>>

\* one step of the run and the optional fields: a field that is set stays
\* set, and the plan changes in the planning stage only
StepKeepsFields ==
    /\ \A i \in 1..Len(OptionalFields) :
           OptionalFields[i] # None => OptionalFields'[i] # None
    /\ state # PLANNING => research_plan' = research_plan

\* C16: research_plan, research_report, validation_result, human_review
\* and final_mrd are populated monotonically: once one of them is set no
\* later step of the run resets it to unset, and research_plan, once the
\* planning stage has set it, never changes value (no step taken in
\* another state than Planning changes it, and no run comes back to
\* Planning).
C16_FieldsMonotone ==
    /\ [][StepKeepsFields]_vars
    /\ [][state # PLANNING => state' # PLANNING]_vars

\* a run that filled the last three fields and kept the plan it was given
C16_Witness ==
    /\ start.state = VALIDATION
    /\ start.validation_result = None
    /\ state = COMPLETED
    /\ \A i \in 1..Len(OptionalFields) : OptionalFields[i] # None
    /\ research_plan = start.research_plan
    /\ research_report = start.research_report

IsPrefix(xs, ys) ==
    /\ Len(xs) <= Len(ys)
    /\ \A i \in 1..Len(xs) : ys[i] = xs[i]

\* C17: the audit log is append-only: on every step of a run the event
\* list before the step is a prefix of the event list after it, so no
\* event is removed, reordered or modified, and the log the run was given
\* stays the head of the log.
C17_AppendOnlyLog ==
    /\ [][IsPrefix(events, events')]_vars
    /\ [](IsPrefix(start.events, events))

\* a run that extended a log it was handed by three events
C17_Witness ==
    /\ start.events # <<>>
    /\ Len(events) = Len(start.events) + 3
    /\ IsPrefix(start.events, events)
    /\ events[Len(events)].state = state

\* the report with every finding given supporting data: two reports that
\* differ only in the evidence of their findings have the same Cited
Cited(report) ==
    ResearchReport(
        [i \in 1..Len(report.sections) |->
            ResearchSection(
                report.sections[i].domain,
                [j \in 1..Len(report.sections[i].findings) |->
                    ResearchFinding(1)],
                report.sections[i].overall_confidence)])

IsEvidenceIssue(issue) == issue.message = "Finding has no supporting tool data"
IsOtherIssue(issue) == ~IsEvidenceIssue(issue)

\* the findings of a report that carry no supporting data, counted
UncitedFindings(report) ==
    Sum([i \in 1..Len(report.sections) |->
            Cardinality({j \in 1..Len(report.sections[i].findings) :
                report.sections[i].findings[j].supporting_data = 0})])

\* C18: findings without supporting evidence are non-fatal: the validator
\* gives a report the status and the overall_confidence it gives the same
\* report with every finding cited, hence the same to any two reports
\* that differ only in the evidence of their findings; the evidence-less
\* findings only add issues of level error, one each when the report is
\* scored.
C18_EvidenceIsNotFatal ==
    (JustValidated /\ research_report # None /\ research_plan # None)
        => LET result == validation_result[1]
               twin == _validate_research(Some(Cited(research_report[1])),
                                          research_plan)
               added == SelectSeq(result.issues, IsEvidenceIssue)
           IN /\ result.status = twin.status
              /\ result.overall_confidence = twin.overall_confidence
              /\ SelectSeq(result.issues, IsOtherIssue) = twin.issues
              /\ \A i \in 1..Len(added) : added[i].level = "error"
              /\ (/\ UniqueDomains(research_report[1])
                  /\ MissingRequired(research_report[1], research_plan[1])
                         = <<>>)
                     => Len(added) = UncitedFindings(research_report[1])

\* a report with two findings without evidence that passes
C18_Witness ==
    /\ JustValidated
    /\ research_report # None
    /\ research_plan # None
    /\ UncitedFindings(research_report[1]) = 2
    /\ Len(validation_result[1].issues) = 2
    /\ validation_result[1].status = PASS
    /\ state = SYNTHESIS

\* a stage is entered without an input it requires
StructuralDefect ==
    \/ state = RESEARCH /\ research_plan = None
    \/ state = HUMAN_REVIEW /\ validation_result = None
    \/ /\ state = SYNTHESIS
       /\ (research_report = None \/ validation_result = None)

\* the step aborts the run and leaves the context as it was
AbortsUnchanged ==
    /\ pc' = "raised"
    /\ error' = "RuntimeError"
    /\ UNCHANGED context

\* C19 as stated: whenever the run is in Research with no plan, in
\* HumanReview with no validation result or in Synthesis with no report
\* or no validation result, the step of the run raises and changes
\* nothing.  Read in the claim's favour: max_research_retries >= 0.
C19_AsStated ==
    [][(/\ pc \in Running
        /\ config.max_research_retries >= 0
        /\ StructuralDefect) => AbortsUnchanged]_vars

\* the research stage is called: the budget check let the attempt through
BudgetLeft == research_retry_count < config.max_research_retries

\* C19 (amended): a structural defect aborts the run with an error and
\* leaves the context unchanged: when the run enters Research with no
\* plan and retry budget left, HumanReview with no validation result, or
\* Synthesis with no report or no validation result, the stage raises a
\* run error, no transition occurs, no audit event is appended and
\* research_retry_count and every context field keep their values.
C19_StructuralDefectAborts ==
    [][(/\ pc \in Running
        /\ StructuralDefect
        /\ state = RESEARCH => BudgetLeft) => AbortsUnchanged]_vars

\* an approved review led to a synthesis without a report
C19_Witness ==
    /\ pc = "raised"
    /\ error = "RuntimeError"
    /\ state = SYNTHESIS
    /\ research_report = None
    /\ validation_result # None
    /\ Len(NewEvents) = 1
    /\ LastEvent.state = SYNTHESIS

\* the adapter behind a recorded tool result reported a failure
ReportedFailure(result) == result.data = "failure"

EveryToolRecordedAsSuccess ==
    tool_results # <<>>
        => /\ [i \in 1..Len(tool_results) |-> tool_results[i].tool_name]
                  = ToolName
           /\ \A i \in 1..Len(tool_results) :
                  tool_results[i].status = TOOL_SUCCESS

\* the verdict that let the run through to synthesis
QualityBarMet ==
    /\ validation_result # None
    /\ \/ validation_result[1].status = PASS
       \/ /\ validation_result[1].status = NEEDS_HUMAN_REVIEW
          /\ human_review # None
          /\ human_review[1].approved
    /\ validation_result[1].overall_confidence
           >= config.default_min_overall_confidence

\* C21: in every run started in Planning that ends in Completed, the last
\* validation result has status pass, or status human_review with an
\* approving review decision, and in both cases its overall_confidence is
\* at least the configured default_min_overall_confidence.
C21_QualityBarAtCompletion ==
    (start.state = PLANNING /\ state = COMPLETED) => QualityBarMet

\* a completed run that replaced a verdict it was handed by its own
C21_Witness ==
    /\ start.state = PLANNING
    /\ start.validation_result # None
    /\ start.validation_result[1].status = NEEDS_HUMAN_REVIEW
    /\ pc = "returned"
    /\ state = COMPLETED
    /\ validation_result[1].status = PASS
    /\ validation_result[1].overall_confidence
           >= config.default_min_overall_confidence
    /\ research_plan[1].minimum_overall_confidence
           = config.default_min_overall_confidence

\* C22: synthesis never hits its fail-fast path in a run started in
\* Planning: whenever the state is Synthesis, research_report and
\* validation_result are set and the report has a section for each of
\* Market, Audience, Competition and Regulation; the run never stops on
\* an exception in Synthesis, and when it has left Synthesis it holds an
\* MRD.
C22_SynthesisNeverFailsFast ==
    start.state = PLANNING
        => /\ state = SYNTHESIS
                  => /\ validation_result # None
                     /\ ReportCoversAllDomains
           /\ ~(pc = "raised" /\ state = SYNTHESIS)
           /\ state = COMPLETED => final_mrd # None

\* the synthesizer is about to run on the report of the first attempt
C22_Witness ==
    /\ StartedFresh
    /\ state = SYNTHESIS
    /\ pc = "running"
    /\ research_retry_count = 1
    /\ validation_result # None
    /\ ReportCoversAllDomains
    /\ final_mrd = None

\* the run has validated: the validation result is one of its own
ValidatedThisRun ==
    \E i \in (Len(start.events) + 1)..Len(events) :
        events[i].message \in ValidationMessages

\* C23: the validator returns status fail only when the report or the
\* plan is absent; in a run started in Planning both are set whenever the
\* state is Validation, so the transition Validation -> Failed (event
\* message 'Validation failed') is never taken and no validation result
\* of such a run has status fail or contains a critical issue.
C23_NoValidationFailure ==
    /\ (JustValidated /\ validation_result[1].status = FAIL)
           => (research_report = None \/ research_plan = None)
    /\ start.state = PLANNING
           => /\ state = VALIDATION
                     => (research_report # None /\ research_plan # None)
              /\ \A i \in (Len(start.events) + 1)..Len(events) :
                     events[i].message # "Validation failed"
              /\ ValidatedThisRun
                     => /\ validation_result[1].status # FAIL
                        /\ ~HasCritical(validation_result[1])

\* a run back in Validation after a retry verdict without critical issue
C23_Witness ==
    /\ StartedFresh
    /\ ValidatedThisRun
    /\ state = VALIDATION
    /\ research_retry_count = 2
    /\ research_report # None
    /\ research_plan # None
    /\ validation_result[1].status = RETRY
    /\ ~HasCritical(validation_result[1])

EntersValidation(e) == e.state = VALIDATION

\* the audit events whose state is Validation, counted
ValidationEntries == Len(SelectSeq(events, EntersValidation))

\* C24: in every state of a run started in Planning with counter 0 and an
\* empty event log, research_retry_count equals the number of audit
\* events whose state is Validation, each of them the 'Research
\* completed' event of a counted research attempt.
C24_CounterMatchesLog ==
    StartedFresh
        => /\ research_retry_count = ValidationEntries
           /\ \A i \in 1..Len(events) :
                  EntersValidation(events[i]) <=> IsReport(events[i])

\* a run that used up a budget of two attempts
C24_Witness ==
    /\ StartedFresh
    /\ state = FAILED
    /\ research_retry_count = 2
    /\ ValidationEntries = 2
    /\ Len(events) = 6

====
